---- MODULE Spec2Model ----
(***************************************************************************)
(* 7colorConvert: the colour quantizer (FloydSteinberg, js/converter.js),  *)
(* the bitmap encoder (BMPEncoder, js/bmp-encoder.js), the conversion      *)
(* pipeline (ImageConverter, js/converter.js) and the crop editor of the   *)
(* page (js/app.js).                                                       *)
(*                                                                         *)
(* Numbers.  The quantizer's working buffer is a Float32Array.  Its values *)
(* are modelled in fixed point: the integer V stands for V / Frac, with    *)
(* Frac = 2^20.  Every value the buffer can hold in a raster whose error   *)
(* chain is at most five pixels deep (each hop divides by 16 = 2^4) lies   *)
(* on this grid, so the arithmetic below is exact for rasters up to 3x2    *)
(* and 2x3; RoundF32 applies the 24-bit significand of a Float32 store.    *)
(* Squared distances need more than 32 bits and are carried in two limbs   *)
(* <<hi, lo>> of 28 bits each.                                             *)
(*                                                                         *)
(* Arrays keep the code's 0-based indices (functions over 0..n-1); colour  *)
(* triples and the palette are sequences, so c[1], c[2], c[3] stand for    *)
(* the code's c[0], c[1], c[2] and palette[1] is Black.                    *)
(***************************************************************************)
EXTENDS Integers, Sequences, FiniteSets, TLC

VARIABLES
    imageData,  \* the raster: [width, height, data], data 4 bytes per pixel
    orig,       \* history: the raster as it was handed to the operation
    ditherOn,   \* the dither argument of FloydSteinberg.dither
    pixels,     \* the Float32Array working copy, 3 values per pixel
    x, y,       \* loop counters of FloydSteinberg.dither
    pc,         \* position in FloydSteinberg.dither: idle, loop, returned
    qin,        \* findNearestColor called on its own: the argument <<r,g,b>>
    qout,       \* ... and its result (<<>> before the call)
    buffer,     \* the ArrayBuffer of BMPEncoder.encode, one byte per index
    ex, ey,     \* loop counters of BMPEncoder.encode
    epc,        \* position in BMPEncoder.encode: idle, rows, done
    blob,       \* the Blob encode returned (NoBlob before it returns)
    written,    \* history: stores made so far to each index of the pixel view
    file,       \* ImageConverter.convert: the source image behind the File
    options,    \* ... its options argument
    cpc,        \* ... its position: idle, loading, loaded, fitted, returned,
                \*     rejected
    target,     \* ... the target frame it chose ({} before)
    drawn,      \* ... the arguments of its ctx.drawImage call ({} before)
    result,     \* ... the object it resolves with (NoResult before)
    images,     \* the app's state.images: id -> image record
    drag,       \* the closure variables of setupCropDrag(id), per id
    calls,      \* per id, the convertSingle(id) calls started by the card's
                \* CONVERT button that wait at their await
    awaited,    \* per id, the convertSingle(id) calls convertAll waits for
    disabled,   \* per id, the disabled flag of the card's CONVERT button
    converting, \* state.converting
    batch       \* the locals of the latest convertAll run: the array
                \* unconverted, the place k in it of the call awaited, and
                \* (history) the places whose conversion failed and whether
                \* a further convertAll call was made during the run

qVars == <<qin, qout>>
dVars == <<ditherOn, pixels, x, y, pc>>
eVars == <<buffer, ex, ey, epc, blob, written>>
cVars == <<file, options, cpc, target, drawn, result>>
bVars == <<awaited, disabled, converting, batch>>
uVars == <<images, drag, calls, awaited, disabled, converting, batch>>

vars == <<imageData, orig, ditherOn, pixels, x, y, pc, qin, qout,
          buffer, ex, ey, epc, blob, written,
          file, options, cpc, target, drawn, result, images, drag, calls,
          awaited, disabled, converting, batch>>

-----------------------------------------------------------------------------
(* Bounds of the model *)

\* largest raster handed to the quantizer
MaxW == 3
MaxH == 2

\* largest raster handed to the encoder
MaxEncW == 4
MaxEncH == 3

-----------------------------------------------------------------------------
(* Fixed-point Float32 values *)

Frac == 2^20
Half == 2^14
Limb == 2^28

Abs(n) == IF n < 0 THEN 0 - n ELSE n

Fx(n) == n * Frac

Fx3(c) == <<Fx(c[1]), Fx(c[2]), Fx(c[3])>>

RECURSIVE ShiftFor(_, _)
\* the number of low bits a Float32 drops from the magnitude a (in grid units)
ShiftFor(a, q) == IF a < q * 2^24 THEN q ELSE ShiftFor(a, 2 * q)

\* a store into a Float32Array: round to a 24-bit significand, ties to even
RoundF32(v) ==
    LET a == Abs(v)
        q == ShiftFor(a, 1)
        d == a \div q
        r == a % q
        m == IF 2 * r < q THEN d
             ELSE IF 2 * r > q THEN d + 1
             ELSE IF d % 2 = 0 THEN d ELSE d + 1
    IN  IF v < 0 THEN 0 - (m * q) ELSE m * q

\* Math.max(0, Math.min(255, v))
Clamp255(v) == IF v < 0 THEN 0 ELSE IF v > Fx(255) THEN Fx(255) ELSE v

\* a store into the raster's Uint8ClampedArray (integer operands only)
ToUint8Clamped(n) == IF n < 0 THEN 0 ELSE IF n > 255 THEN 255 ELSE n

-----------------------------------------------------------------------------
(* FloydSteinberg: palette and nearest colour *)

EINK_PALETTE ==
    << <<0, 0, 0>>,
       <<255, 255, 255>>,
       <<0, 255, 0>>,
       <<0, 0, 255>>,
       <<255, 0, 0>>,
       <<255, 255, 0>>,
       <<255, 128, 0>> >>

\* d * d of a fixed-point difference, as a two-limb number
Sq(d) ==
    LET m   == Abs(d)
        a   == m \div Half
        b   == m % Half
        mid == 2 * a * b
        lo  == (mid % Half) * Half + b * b
    IN  <<a * a + (mid \div Half) + (lo \div Limb), lo % Limb>>

AddLimbs(p, q) ==
    LET lo == p[2] + q[2]
    IN  <<p[1] + q[1] + (lo \div Limb), lo % Limb>>

DistLess(p, q) == p[1] < q[1] \/ (p[1] = q[1] /\ p[2] < q[2])

Infinity == <<2147483647, 0>>

\* dr*dr + dg*dg + db*db
colorDistance(c1, c2) ==
    LET dr == c1[1] - c2[1]
        dg == c1[2] - c2[2]
        db == c1[3] - c2[3]
    IN  AddLimbs(AddLimbs(Sq(dr), Sq(dg)), Sq(db))

\* the comparison "dist < minDist" with <= in place of <
Closer_orEqual(dist, minDist) == ~ DistLess(minDist, dist)

\* if (dist < minDist)
Closer(dist, minDist) == DistLess(dist, minDist)

RECURSIVE NearestFrom(_, _, _, _, _, _, _)
\* the for-of loop of findNearestColor, from palette entry i on
NearestFrom(r, g, b, palette, i, minDist, nearest) ==
    IF i > Len(palette) THEN nearest
    ELSE LET color == palette[i]
             dist  == colorDistance(<<r, g, b>>, Fx3(color))
         IN  IF Closer(dist, minDist)
             THEN NearestFrom(r, g, b, palette, i + 1, dist, color)
             ELSE NearestFrom(r, g, b, palette, i + 1, minDist, nearest)

\* r, g, b are fixed-point; the result is a palette entry (integers)
findNearestColor(r, g, b, palette) ==
    NearestFrom(r, g, b, palette, 1, Infinity, palette[1])

-----------------------------------------------------------------------------
(* FloydSteinberg.dither *)

\* pixels[i*3 + c] = data[i*4 + c] for every pixel i
CopyRGB(data, n) ==
    [j \in 0 .. (3 * n - 1) |-> RoundF32(Fx(data[(j \div 3) * 4 + (j % 3)]))]

\* data[outIdx] = newR with the index shifted by one (clobbers alpha)
WritePixel_shifted(data, outIdx, newColor) ==
    [data EXCEPT ![outIdx + 1] = ToUint8Clamped(newColor[1]),
                 ![outIdx + 2] = ToUint8Clamped(newColor[2]),
                 ![outIdx + 3] = ToUint8Clamped(newColor[3])]

\* the three colour stores and a fourth that makes the pixel opaque
WritePixel_opaque(data, outIdx, newColor) ==
    [data EXCEPT ![outIdx]     = ToUint8Clamped(newColor[1]),
                 ![outIdx + 1] = ToUint8Clamped(newColor[2]),
                 ![outIdx + 2] = ToUint8Clamped(newColor[3]),
                 ![outIdx + 3] = 255]

\* data[outIdx] = newR; data[outIdx+1] = newG; data[outIdx+2] = newB
WritePixel(data, outIdx, newColor) ==
    [data EXCEPT ![outIdx]     = ToUint8Clamped(newColor[1]),
                 ![outIdx + 1] = ToUint8Clamped(newColor[2]),
                 ![outIdx + 2] = ToUint8Clamped(newColor[3])]

\* the error taken as the old value alone
QuantError_noSubtract(old, newColor) == old

\* errR = oldR - newR, errG = oldG - newG, errB = oldB - newB
QuantError(old, newColor) ==
    <<old[1] - Fx(newColor[1]), old[2] - Fx(newColor[2]), old[3] - Fx(newColor[3])>>

\* the error divided by 8, the weights then sum to 2
Share_eighths(e, k) == (e * k + 4) \div 8

\* err * k / 16; exact on the grid, rounded to the grid beyond it
Share(e, k) == (e * k + 8) \div 16

\* pixels[j] += errR*k/16; pixels[j+1] += errG*k/16; pixels[j+2] += errB*k/16
AddErr(p, j, err, k) ==
    [p EXCEPT ![j]     = RoundF32(@ + Share(err[1], k)),
              ![j + 1] = RoundF32(@ + Share(err[2], k)),
              ![j + 2] = RoundF32(@ + Share(err[3], k))]

HasRight(px, w) == px + 1 < w

\* the lower-left guard without its x > 0 half
HasBelowLeft_noLeftEdge(px, py, w, h) == py + 1 < h

HasBelowLeft(px, py, w, h) == px > 0 /\ py + 1 < h

HasBelow(py, h) == py + 1 < h

HasBelowRight(px, py, w, h) == px + 1 < w /\ py + 1 < h

\* the four guarded updates, in the code's order
Distribute(p, px, py, w, h, err) ==
    LET idx == (py * w + px) * 3
        p1  == IF HasRight(px, w)
               THEN AddErr(p, idx + 3, err, 7) ELSE p
        p2  == IF HasBelowLeft(px, py, w, h)
               THEN AddErr(p1, ((py + 1) * w + (px - 1)) * 3, err, 3) ELSE p1
        p3  == IF HasBelow(py, h)
               THEN AddErr(p2, ((py + 1) * w + px) * 3, err, 5) ELSE p2
        p4  == IF HasBelowRight(px, py, w, h)
               THEN AddErr(p3, ((py + 1) * w + (px + 1)) * 3, err, 1) ELSE p3
    IN  p4

\* the propagation block run whatever the flag says
Diffuse_always(p, px, py, w, h, err, dither) == Distribute(p, px, py, w, h, err)

\* if (dither) { ... }
Diffuse(p, px, py, w, h, err, dither) ==
    IF dither THEN Distribute(p, px, py, w, h, err) ELSE p

\* the call: defaults, and the copy loop
DitherCall(d) ==
    /\ pc = "idle"
    /\ ditherOn' = d
    /\ pixels' = CopyRGB(imageData.data, imageData.width * imageData.height)
    /\ x' = 0
    /\ y' = 0
    /\ pc' = "loop"
    /\ UNCHANGED <<imageData, orig, qVars, eVars, cVars, uVars>>

\* one iteration of the inner loop, at pixel (x, y)
DitherPixel ==
    /\ pc = "loop"
    /\ y < imageData.height
    /\ LET w        == imageData.width
           h        == imageData.height
           idx      == (y * w + x) * 3
           old      == <<Clamp255(pixels[idx]), Clamp255(pixels[idx + 1]),
                         Clamp255(pixels[idx + 2])>>
           newColor == findNearestColor(old[1], old[2], old[3], EINK_PALETTE)
           outIdx   == (y * w + x) * 4
       IN  /\ imageData' = [imageData EXCEPT
                               !.data = WritePixel(@, outIdx, newColor)]
           /\ pixels' = Diffuse(pixels, x, y, w, h,
                                QuantError(old, newColor), ditherOn)
           /\ IF x + 1 < w
              THEN x' = x + 1 /\ y' = y
              ELSE x' = 0 /\ y' = y + 1
    /\ UNCHANGED <<orig, ditherOn, pc, qVars, eVars, cVars, uVars>>

\* return imageData
DitherReturn ==
    /\ pc = "loop"
    /\ y >= imageData.height
    /\ pc' = "returned"
    /\ UNCHANGED <<imageData, orig, ditherOn, pixels, x, y, qVars, eVars, cVars, uVars>>

-----------------------------------------------------------------------------
(* BMPEncoder.encode *)

NoBlob == [type |-> "none", bytes |-> <<>>]

\* the encoder before encode is called
EncoderIdle ==
    /\ buffer = <<>>
    /\ ex = 0
    /\ ey = 0
    /\ epc = "idle"
    /\ blob = NoBlob
    /\ written = <<>>

NoResult == [blob |-> NoBlob]

\* the converter before convert is called
ConverterIdle ==
    /\ file = <<>>
    /\ options = <<>>
    /\ cpc = "idle"
    /\ target = <<>>
    /\ drawn = <<>>
    /\ result = NoResult

\* convertAll has not run yet
NoBatch == [unconverted |-> <<>>, k |-> 1, failed |-> {}, refused |-> FALSE]

\* state.images = new Map(), state.converting = false, no card on the page
AppEmpty ==
    /\ images = <<>>
    /\ drag = <<>>
    /\ calls = <<>>
    /\ awaited = <<>>
    /\ disabled = <<>>
    /\ converting = FALSE
    /\ batch = NoBatch

\* Math.ceil(n / d) for n >= 0, d > 0
CeilDiv(n, d) == IF n % d = 0 THEN n \div d ELSE (n \div d) + 1

\* the row size without the rounding up to 4 bytes
rowSizeOf_unpadded(width) == width * 3

\* rowSize = Math.ceil((width * 3) / 4) * 4
rowSizeOf(width) == CeilDiv(width * 3, 4) * 4

\* DataView.setUint8 / setUint16 / setUint32 / setInt32 with littleEndian =
\* true: the low byte first; % and \div floor, so a negative value is stored
\* in two's complement
SetUint8(buf, off, v) == [buf EXCEPT ![off] = v % 256]

SetUint16(buf, off, v) ==
    [buf EXCEPT ![off]     = v % 256,
                ![off + 1] = (v \div 256) % 256]

SetUint32(buf, off, v) ==
    [buf EXCEPT ![off]     = v % 256,
                ![off + 1] = (v \div 256) % 256,
                ![off + 2] = (v \div 65536) % 256,
                ![off + 3] = (v \div 16777216) % 256]

SetInt32(buf, off, v) == SetUint32(buf, off, v)

\* new ArrayBuffer(fileSize): zero-filled
NewBuffer(fileSize) == [i \in 0 .. (fileSize - 1) |-> 0]

\* the 14-byte file header and the 40-byte DIB header, in the code's order
WriteHeaders(buf, width, height, fileSize, pixelArraySize) ==
    LET b1  == SetUint8(buf, 0, 66)
        b2  == SetUint8(b1, 1, 77)
        b3  == SetUint32(b2, 2, fileSize)
        b4  == SetUint16(b3, 6, 0)
        b5  == SetUint16(b4, 8, 0)
        b6  == SetUint32(b5, 10, 54)
        b7  == SetUint32(b6, 14, 40)
        b8  == SetInt32(b7, 18, width)
        b9  == SetInt32(b8, 22, height)
        b10 == SetUint16(b9, 26, 1)
        b11 == SetUint16(b10, 28, 24)
        b12 == SetUint32(b11, 30, 0)
        b13 == SetUint32(b12, 34, pixelArraySize)
        b14 == SetInt32(b13, 38, 2835)
        b15 == SetInt32(b14, 42, 2835)
        b16 == SetUint32(b15, 46, 0)
        b17 == SetUint32(b16, 50, 0)
    IN  b17

\* data[i]: a read past the end yields undefined, stored below as 0
ReadByte(data, i) == IF i \in DOMAIN data THEN data[i] ELSE 0

\* pixels[i] = v, pixels being the Uint8Array view of buffer from byte 54;
\* a store past the end of the view is dropped
StorePixelByte(buf, i, v) ==
    IF i >= 0 /\ 54 + i \in DOMAIN buf THEN [buf EXCEPT ![54 + i] = v % 256]
    ELSE buf

\* the source row read as height - y
SrcRow_offByOne(py, height) == height - py

\* the source row read top-down
SrcRow_topDown(py, height) == py

\* srcY = height - 1 - y
SrcRow(py, height) == height - 1 - py

\* srcIdx = (srcY * width + x) * 4
SrcIdx(px, py, width, height) == (SrcRow(py, height) * width + px) * 4

\* dstIdx = rowOffset + x * 3, rowOffset = y * rowSize
DstIdx(px, py, rowSize) == py * rowSize + px * 3

\* the call: sizes, allocation and both headers
EncodeCall ==
    /\ epc = "idle"
    /\ LET width          == imageData.width
           height         == imageData.height
           rowSize        == rowSizeOf(width)
           pixelArraySize == rowSize * height
           fileSize       == 54 + pixelArraySize
       IN  /\ buffer' = WriteHeaders(NewBuffer(fileSize), width, height,
                                     fileSize, pixelArraySize)
           /\ written' = [i \in 0 .. (pixelArraySize - 1) |-> 0]
    /\ ex' = 0
    /\ ey' = 0
    /\ epc' = "rows"
    /\ UNCHANGED <<imageData, orig, dVars, qVars, cVars, uVars, blob>>

\* one iteration of the inner loop, at file row ey and column ex
EncodePixel ==
    /\ epc = "rows"
    /\ ey < imageData.height
    /\ ex < imageData.width
    /\ LET width  == imageData.width
           height == imageData.height
           srcIdx == SrcIdx(ex, ey, width, height)
           dstIdx == DstIdx(ex, ey, rowSizeOf(width))
           b1     == StorePixelByte(buffer, dstIdx, ReadByte(imageData.data, srcIdx + 2))
           b2     == StorePixelByte(b1, dstIdx + 1, ReadByte(imageData.data, srcIdx + 1))
           b3     == StorePixelByte(b2, dstIdx + 2, ReadByte(imageData.data, srcIdx))
       IN  /\ buffer' = b3
           /\ written' = [i \in DOMAIN written |->
                             IF i \in dstIdx .. (dstIdx + 2)
                             THEN written[i] + 1 ELSE written[i]]
           /\ IF ex + 1 < width
              THEN ex' = ex + 1 /\ ey' = ey
              ELSE ex' = 0 /\ ey' = ey + 1
    /\ UNCHANGED <<imageData, orig, dVars, qVars, cVars, uVars, epc, blob>>

\* an iteration of the outer loop whose inner loop has nothing to do
EncodeEmptyRow ==
    /\ epc = "rows"
    /\ ey < imageData.height
    /\ ~ (ex < imageData.width)
    /\ ey' = ey + 1
    /\ UNCHANGED <<imageData, orig, dVars, qVars, cVars, uVars, buffer, ex, epc, blob, written>>

\* return new Blob([buffer], { type: 'image/bmp' })
EncodeReturn ==
    /\ epc = "rows"
    /\ ey >= imageData.height
    /\ blob' = [type |-> "image/bmp", bytes |-> buffer]
    /\ epc' = "done"
    /\ UNCHANGED <<imageData, orig, dVars, qVars, cVars, uVars, buffer, ex, ey, written>>

\* rasters handed to the encoder: byte k of the data is seed + mult * k, so
\* neighbouring bytes differ; and the 2x2 raster [white, black; red, blue]
PatternRaster(w, h, seed, mult) ==
    [width  |-> w,
     height |-> h,
     data   |-> [k \in 0 .. (4 * w * h - 1) |-> (seed + mult * k) % 256]]

Example2x2 ==
    [width  |-> 2,
     height |-> 2,
     data   |-> [k \in 0 .. 15 |->
                    << 255, 255, 255, 255,   0, 0, 0, 255,
                       255, 0, 0, 255,       0, 0, 255, 255 >>[k + 1]]]

EncodeInputs ==
    { PatternRaster(w, h, seed, mult) :
        w \in 0 .. MaxEncW, h \in 0 .. MaxEncH,
        seed \in {0, 131, 250}, mult \in {1, 37} }
        \cup { Example2x2 }

InitEncode ==
    /\ imageData \in EncodeInputs
    /\ orig = imageData
    /\ ditherOn = TRUE
    /\ pixels = <<>>
    /\ x = 0
    /\ y = 0
    /\ pc = "idle"
    /\ qin = <<>>
    /\ qout = <<>>
    /\ EncoderIdle
    /\ ConverterIdle
    /\ AppEmpty

NextEncode ==
    \/ EncodeCall
    \/ EncodePixel
    \/ EncodeEmptyRow
    \/ EncodeReturn

SpecEncode == InitEncode /\ [][NextEncode]_vars

-----------------------------------------------------------------------------
(* Input rasters of the quantizer *)

\* colours a pixel may take independently of its neighbours
InColors == { <<128, 128, 128>>, <<40, 200, 90>> }

\* colours of the uniform rasters: the palette and colours off it
UniformColors ==
    { EINK_PALETTE[i] : i \in 1 .. 7 }
        \cup { <<128, 128, 128>>, <<250, 250, 250>>, <<200, 100, 10>>,
               <<127, 127, 127>>, <<3, 2, 1>>, <<0, 180, 255>> }

\* alpha of pixel i: opaque, translucent and transparent pixels all occur
AlphaAt(i) == (255 + 85 * i) % 256

RasterOf(w, h, col) ==
    [width  |-> w,
     height |-> h,
     data   |-> [k \in 0 .. (4 * w * h - 1) |->
                    IF k % 4 = 3 THEN AlphaAt(k \div 4)
                    ELSE col[k \div 4][(k % 4) + 1]]]

DitherInputs ==
    UNION { UNION { { RasterOf(w, h, col) :
                        col \in [0 .. (w * h - 1) -> InColors] }
                    \cup { RasterOf(w, h, [i \in 0 .. (w * h - 1) |-> c]) :
                             c \in UniformColors }
                    : h \in 1 .. MaxH }
            : w \in 1 .. MaxW }

InitDither ==
    /\ imageData \in DitherInputs
    /\ orig = imageData
    /\ ditherOn = TRUE
    /\ pixels = <<>>
    /\ x = 0
    /\ y = 0
    /\ pc = "idle"
    /\ qin = <<>>
    /\ qout = <<>>
    /\ EncoderIdle
    /\ ConverterIdle
    /\ AppEmpty

NextDither ==
    \/ \E d \in BOOLEAN : DitherCall(d)
    \/ DitherPixel
    \/ DitherReturn

SpecDither == InitDither /\ [][NextDither]_vars

-----------------------------------------------------------------------------
(* findNearestColor called on its own *)

\* channel values tried: integers, half-integers and one grid step off a half
NearestVals ==
    { h * (Frac \div 2) : h \in {0, 128, 254, 255, 256, 383, 510} }
        \cup { 255 * (Frac \div 2) + 1 }

FindNearest ==
    /\ qout = <<>>
    /\ qin # <<>>
    /\ qout' = findNearestColor(qin[1], qin[2], qin[3], EINK_PALETTE)
    /\ UNCHANGED <<imageData, orig, dVars, qin, eVars, cVars, uVars>>

InitNearest ==
    /\ qin \in NearestVals \X NearestVals \X NearestVals
    /\ qout = <<>>
    /\ imageData = RasterOf(1, 1, [i \in {0} |-> <<0, 0, 0>>])
    /\ orig = imageData
    /\ ditherOn = TRUE
    /\ pixels = <<>>
    /\ x = 0
    /\ y = 0
    /\ pc = "idle"
    /\ EncoderIdle
    /\ ConverterIdle
    /\ AppEmpty

NextNearest == FindNearest

SpecNearest == InitNearest /\ [][NextNearest]_vars

-----------------------------------------------------------------------------
(* Properties of the quantizer *)

PaletteSet == { EINK_PALETTE[i] : i \in 1 .. Len(EINK_PALETTE) }

NumPixels == imageData.width * imageData.height

\* the RGB triple of pixel i of a raster
RGBAt(img, i) == <<img.data[4 * i], img.data[4 * i + 1], img.data[4 * i + 2]>>

IsUniform(img) ==
    \A i \in 0 .. (img.width * img.height - 1) : RGBAt(img, i) = RGBAt(img, 0)

\* C1: once dither has returned (either flag), the RGB triple of every pixel
\* of the raster is one of the 7 entries of EINK_PALETTE.
C1_OutputInPalette ==
    pc = "returned" =>
        \A i \in 0 .. (NumPixels - 1) : RGBAt(imageData, i) \in PaletteSet

C1_Witness ==
    /\ pc = "returned"
    /\ ditherOn
    /\ NumPixels = 4
    /\ \A i \in 0 .. 3 : RGBAt(orig, i) \notin PaletteSet
    /\ ~ IsUniform(imageData)

\* C2: findNearestColor returns a palette entry at minimal squared distance
\* from (r,g,b), and among the entries at that distance the one of lowest
\* index.
C2_NearestIsFirstMinimum ==
    qout # <<>> =>
        \E k \in 1 .. Len(EINK_PALETTE) :
            /\ qout = EINK_PALETTE[k]
            /\ \A j \in 1 .. Len(EINK_PALETTE) :
                  ~ DistLess(colorDistance(qin, Fx3(EINK_PALETTE[j])),
                             colorDistance(qin, Fx3(EINK_PALETTE[k])))
            /\ \A j \in 1 .. (k - 1) :
                  DistLess(colorDistance(qin, Fx3(EINK_PALETTE[k])),
                           colorDistance(qin, Fx3(EINK_PALETTE[j])))

\* (127.5, 0, 0) is equidistant from Black and Red and resolves to Black
C2_Witness ==
    /\ qin = <<255 * (Frac \div 2), 0, 0>>
    /\ qout = <<0, 0, 0>>

\* the step of dither that processes pixel (x, y) with dithering enabled
C3_Step ==
    /\ pc = "loop"
    /\ y < imageData.height
    /\ ditherOn
    /\ <<x, y>>' # <<x, y>>

C3_Weight(qx, qy) ==
    IF qx = x + 1 /\ qy = y THEN 7
    ELSE IF qx = x - 1 /\ qy = y + 1 THEN 3
    ELSE IF qx = x /\ qy = y + 1 THEN 5
    ELSE IF qx = x + 1 /\ qy = y + 1 THEN 1
    ELSE 0

\* the error buffer after the step, entry by entry: the entry of channel c of
\* the pixel at (qx, qy) gains weight/16 of e = clamped value - chosen value
C3_Expected ==
    [j \in DOMAIN pixels |->
        LET q   == j \div 3
            c   == j % 3
            cur == y * imageData.width + x
            wgt == C3_Weight(q % imageData.width, q \div imageData.width)
            e   == Clamp255(pixels[cur * 3 + c]) - Fx(imageData'.data[cur * 4 + c])
        IN  IF wgt = 0 THEN pixels[j]
            ELSE RoundF32(pixels[j] + Share(e, wgt))]

\* C3: with dithering enabled the step at (x,y) adds 7e/16 to (x+1,y), 3e/16
\* to (x-1,y+1), 5e/16 to (x,y+1) and e/16 to (x+1,y+1), each exactly when
\* that pixel is inside the raster, changes no other entry of the buffer, and
\* so changes only entries of pixels later in row-major order.
C3_Kernel ==
    [][C3_Step =>
          /\ pixels' = C3_Expected
          /\ \A j \in DOMAIN pixels :
                pixels'[j] # pixels[j] => j \div 3 > y * imageData.width + x]_vars

\* pixel (1,0) of a 3x2 raster has all four neighbours; it has been processed
\* and has moved the buffer entries of each of them
C3_Witness ==
    /\ pc = "loop"
    /\ ditherOn
    /\ imageData.width = 3
    /\ imageData.height = 2
    /\ x = 2
    /\ y = 0
    /\ pixels[6] # Fx(orig.data[8])
    /\ pixels[9] # Fx(orig.data[12])
    /\ pixels[12] # Fx(orig.data[16])
    /\ pixels[15] # Fx(orig.data[20])

\* C4: with dither = false every output pixel is findNearestColor of that
\* pixel's own input RGB.
C4_NoDitherIsPointwise ==
    (pc = "returned" /\ ~ ditherOn) =>
        \A i \in 0 .. (NumPixels - 1) :
            LET c == Fx3(RGBAt(orig, i))
            IN  RGBAt(imageData, i) = findNearestColor(c[1], c[2], c[3], EINK_PALETTE)

C4_Witness ==
    /\ pc = "returned"
    /\ ~ ditherOn
    /\ NumPixels = 4
    /\ IsUniform(orig)
    /\ RGBAt(orig, 0) = <<128, 128, 128>>
    /\ RGBAt(imageData, 3) = <<255, 128, 0>>

\* C9: dither never changes the raster's width or height, the length of its
\* data, or the alpha byte of any pixel.
C9_AlphaAndSizeKept ==
    /\ imageData.width = orig.width
    /\ imageData.height = orig.height
    /\ DOMAIN imageData.data = DOMAIN orig.data
    /\ \A i \in 0 .. (NumPixels - 1) :
          imageData.data[4 * i + 3] = orig.data[4 * i + 3]

C9_Witness ==
    /\ pc = "returned"
    /\ NumPixels = 4
    /\ imageData.data[7] = 84
    /\ imageData.data[15] = 254
    /\ \A i \in 0 .. 3 : RGBAt(imageData, i) # RGBAt(orig, i)

\* C10 as stated: a raster of one colour c, any c, dithers to findNearestColor(c)
\* at every pixel.
C10_UniformStaysUniform ==
    (pc = "returned" /\ ditherOn /\ IsUniform(orig)) =>
        \A i \in 0 .. (NumPixels - 1) :
            LET c == Fx3(RGBAt(orig, 0))
            IN  RGBAt(imageData, i) = findNearestColor(c[1], c[2], c[3], EINK_PALETTE)

\* C10 (amended): a raster whose pixels all have the same palette colour c
\* dithers to c at every pixel.
C10_UniformPaletteStays ==
    (pc = "returned" /\ ditherOn /\ IsUniform(orig)
        /\ RGBAt(orig, 0) \in PaletteSet) =>
        \A i \in 0 .. (NumPixels - 1) : RGBAt(imageData, i) = RGBAt(orig, 0)

C10_Witness ==
    /\ pc = "returned"
    /\ ditherOn
    /\ NumPixels = 4
    /\ IsUniform(orig)
    /\ RGBAt(orig, 0) = <<255, 128, 0>>
    /\ RGBAt(imageData, 3) = <<255, 128, 0>>

-----------------------------------------------------------------------------
(* Properties of the encoder *)

\* the row stride: the multiple of 4 among 3w, 3w+1, 3w+2, 3w+3
StrideOf(w) == CHOOSE s \in (3 * w) .. (3 * w + 3) : s % 4 = 0

\* a little-endian field of 4 (of 2) bytes at offset off holds v < 2^24 (2^16)
Field32(b, off, v) ==
    /\ b[off] + 256 * b[off + 1] + 65536 * b[off + 2] = v
    /\ b[off + 3] = 0

Field16(b, off, v) == b[off] + 256 * b[off + 1] = v

HasArea == imageData.width >= 1 /\ imageData.height >= 1

\* C5: in the encoded file of a raster with width, height >= 1, the bytes at
\* 54 + y*stride + 3x + {0,1,2} are the B, G, R channels of source pixel
\* (x, height-1-y), every byte at row offset >= 3*width is zero, and the 2x2
\* raster [white, black; red, blue] yields the sixteen bytes of the example.
C5_PixelLayout ==
    (epc = "done" /\ HasArea) =>
        LET w      == imageData.width
            h      == imageData.height
            stride == StrideOf(w)
            b      == blob.bytes
        IN  /\ \A fy \in 0 .. (h - 1) :
                  /\ \A fx \in 0 .. (w - 1) :
                        LET src == ((h - 1 - fy) * w + fx) * 4
                            dst == 54 + fy * stride + 3 * fx
                        IN  /\ b[dst]     = imageData.data[src + 2]
                            /\ b[dst + 1] = imageData.data[src + 1]
                            /\ b[dst + 2] = imageData.data[src]
                  /\ \A o \in (3 * w) .. (stride - 1) :
                        b[54 + fy * stride + o] = 0
            /\ imageData = Example2x2 =>
                  [i \in 1 .. 16 |-> b[53 + i]] =
                      << 0, 0, 255,    255, 0, 0,        0, 0,
                         255, 255, 255,    0, 0, 0,      0, 0 >>

C5_Witness ==
    /\ epc = "done"
    /\ imageData = Example2x2
    /\ blob.bytes[54] = 0
    /\ blob.bytes[56] = 255
    /\ blob.bytes[57] = 255
    /\ blob.bytes[62] = 255

\* C6: the encoded file of a raster with width, height >= 1 has exactly
\* 54 + stride*height bytes and the header fields 'BM', file size, 0, 0, 54,
\* 40, width, height, 1, 24, 0, stride*height, 2835, 2835, 0, 0, little-endian.
C6_SizeAndHeader ==
    (epc = "done" /\ HasArea) =>
        LET w      == imageData.width
            h      == imageData.height
            stride == StrideOf(w)
            b      == blob.bytes
        IN  /\ DOMAIN b = 0 .. (54 + stride * h - 1)
            /\ b[0] = 66
            /\ b[1] = 77
            /\ Field32(b, 2, 54 + stride * h)
            /\ Field16(b, 6, 0)
            /\ Field16(b, 8, 0)
            /\ Field32(b, 10, 54)
            /\ Field32(b, 14, 40)
            /\ Field32(b, 18, w)
            /\ Field32(b, 22, h)
            /\ Field16(b, 26, 1)
            /\ Field16(b, 28, 24)
            /\ Field32(b, 30, 0)
            /\ Field32(b, 34, stride * h)
            /\ Field32(b, 38, 2835)
            /\ Field32(b, 42, 2835)
            /\ Field32(b, 46, 0)
            /\ Field32(b, 50, 0)

\* a 3x2 raster: stride 12, 24 bytes of pixel data, 78 bytes in all
C6_Witness ==
    /\ epc = "done"
    /\ imageData.width = 3
    /\ imageData.height = 2
    /\ blob.bytes[2] = 78
    /\ blob.bytes[34] = 24
    /\ blob.bytes[38] = 19
    /\ blob.bytes[39] = 11

\* C7: for a raster with width, height >= 1, every store of the pixel loop
\* falls inside the pixel view (dstIdx + 2 < stride*height), every read inside
\* the raster's data (srcIdx + 2 < 4*width*height), and when encode returns
\* every pixel byte has been stored exactly once and no padding byte at all.
C7_AccessesInBounds ==
    HasArea =>
        LET w      == imageData.width
            h      == imageData.height
            stride == StrideOf(w)
        IN  /\ (epc = "rows" /\ ey < h) =>
                  /\ DstIdx(ex, ey, rowSizeOf(w)) >= 0
                  /\ DstIdx(ex, ey, rowSizeOf(w)) + 2 < stride * h
                  /\ 54 + stride * h = Cardinality(DOMAIN buffer)
                  /\ SrcIdx(ex, ey, w, h) >= 0
                  /\ SrcIdx(ex, ey, w, h) + 2 < 4 * w * h
                  /\ 4 * w * h = Cardinality(DOMAIN imageData.data)
            /\ epc = "done" =>
                  /\ blob.type = "image/bmp"
                  /\ \A i \in 0 .. (stride * h - 1) :
                        written[i] = IF i % stride < 3 * w THEN 1 ELSE 0

C7_Witness ==
    /\ epc = "done"
    /\ imageData.width = 3
    /\ imageData.height = 3
    /\ written[26] = 1
    /\ written[35] = 0

\* C8 as stated: a raster with width = 0 or height = 0 handed to encode is
\* rejected: encode never gets past the call, and no byte is allocated or
\* returned.
C8_ZeroAreaRejected ==
    (imageData.width = 0 \/ imageData.height = 0) =>
        /\ epc \in {"idle", "error"}
        /\ buffer = <<>>
        /\ blob = NoBlob

-----------------------------------------------------------------------------
(* Target frames and crop rectangles *)

LANDSCAPE == [width |-> 800, height |-> 480]
PORTRAIT  == [width |-> 480, height |-> 800]

\* Crop coordinates are fractions of a source pixel: target.width /
\* target.height is 5/3 or 3/5 and the centring halves, so every value the
\* code computes is a multiple of 1/30.  A crop field c stands for c / CropUnit.
\* The code's doubles are taken as exact.
CropUnit == 2 * 3 * 5

\* the test "imgWidth / imgHeight > aspectRatio" with < in place of >
WiderThan_flipped(imgWidth, imgHeight, t) ==
    imgWidth * t.height < imgHeight * t.width

\* imgWidth / imgHeight > aspectRatio, aspectRatio = target.width / target.height
WiderThan(imgWidth, imgHeight, t) ==
    imgWidth * t.height > imgHeight * t.width

\* imgWidth, imgHeight in pixels; the result in crop units
calculateInitialCrop(imgWidth, imgHeight, orientation) ==
    LET t          == IF orientation = "landscape" THEN LANDSCAPE ELSE PORTRAIT
        wide       == WiderThan(imgWidth, imgHeight, t)
        cropHeight == IF wide THEN imgHeight * CropUnit
                      ELSE (imgWidth * CropUnit * t.height) \div t.width
        cropWidth  == IF wide THEN (cropHeight * t.width) \div t.height
                      ELSE imgWidth * CropUnit
    IN  [x      |-> (imgWidth * CropUnit - cropWidth) \div 2,
         y      |-> (imgHeight * CropUnit - cropHeight) \div 2,
         width  |-> cropWidth,
         height |-> cropHeight]

-----------------------------------------------------------------------------
(* ImageConverter *)

\* width > height with >= in place of >
getTargetDimensions_orEqual(width, height) ==
    IF width >= height THEN LANDSCAPE ELSE PORTRAIT

getTargetDimensions(width, height) ==
    IF width > height THEN LANDSCAPE ELSE PORTRAIT

\* options.mode || 'scale'; an absent or empty option is ""
ModeOf(opts) == IF opts.mode = "" THEN "scale" ELSE opts.mode

\* options.dither !== false
DitherOf(opts) == opts.dither # "false"

\* options.orientation || 'auto'
OrientationOf(opts) == IF opts.orientation = "" THEN "auto" ELSE opts.orientation

\* the if / else-if / else that picks the target
TargetFor(orientation, img) ==
    IF orientation = "landscape" THEN LANDSCAPE
    ELSE IF orientation = "portrait" THEN PORTRAIT
    ELSE getTargetDimensions(img.width, img.height)

\* the scale ratio taken with Math.min (fit inside) instead of Math.max
CoverRatio_contain(img, t) ==
    IF t.width * img.height <= t.height * img.width
    THEN <<t.width, img.width>> ELSE <<t.height, img.height>>

\* Math.max(target.width / img.width, target.height / img.height), as the
\* fraction <<numerator, denominator>>
CoverRatio(img, t) ==
    IF t.width * img.height >= t.height * img.width
    THEN <<t.width, img.width>> ELSE <<t.height, img.height>>

\* Math.round(n / d), d > 0: halves round up
RoundDiv(n, d) == (2 * n + d) \div (2 * d)

\* Math.floor(n / 2)
FloorHalf(n) == n \div 2

\* the canvas left as created: transparent black
Background_unfilled == <<0, 0, 0, 0>>

\* ctx.fillStyle = '#FFFFFF'; ctx.fillRect(0, 0, target.width, target.height)
\* on a fresh (transparent) canvas: the colour of every canvas pixel
Background == <<255, 255, 255, 255>>

\* resizeScale up to its drawImage call: the canvas and the call's arguments
resizeScale(img, t) ==
    LET scaleRatio    == CoverRatio(img, t)
        resizedWidth  == RoundDiv(img.width * scaleRatio[1], scaleRatio[2])
        resizedHeight == RoundDiv(img.height * scaleRatio[1], scaleRatio[2])
        left          == FloorHalf(t.width - resizedWidth)
        top           == FloorHalf(t.height - resizedHeight)
    IN  [canvasWidth |-> t.width, canvasHeight |-> t.height,
         fill |-> Background,
         dx |-> left, dy |-> top, dw |-> resizedWidth, dh |-> resizedHeight]

\* resizeCut with the image fitted inside the canvas instead of covering it
resizeCut_contain(img, t) ==
    LET scaleRatio    == IF t.width * img.height <= t.height * img.width
                         THEN <<t.width, img.width>> ELSE <<t.height, img.height>>
        resizedWidth  == RoundDiv(img.width * scaleRatio[1], scaleRatio[2])
        resizedHeight == RoundDiv(img.height * scaleRatio[1], scaleRatio[2])
        left          == FloorHalf(t.width - resizedWidth)
        top           == FloorHalf(t.height - resizedHeight)
    IN  [canvasWidth |-> t.width, canvasHeight |-> t.height,
         fill |-> Background,
         dx |-> left, dy |-> top, dw |-> resizedWidth, dh |-> resizedHeight]

\* resizeCut up to its drawImage call
resizeCut(img, t) ==
    LET scaleRatio    == CoverRatio(img, t)
        resizedWidth  == RoundDiv(img.width * scaleRatio[1], scaleRatio[2])
        resizedHeight == RoundDiv(img.height * scaleRatio[1], scaleRatio[2])
        left          == FloorHalf(t.width - resizedWidth)
        top           == FloorHalf(t.height - resizedHeight)
    IN  [canvasWidth |-> t.width, canvasHeight |-> t.height,
         fill |-> Background,
         dx |-> left, dy |-> top, dw |-> resizedWidth, dh |-> resizedHeight]

\* The raster is kept at one sample per block of FrameUnit x FrameUnit canvas
\* pixels (the frames are 5x3 and 3x5 such blocks): sample (cx, cy) is the
\* canvas pixel at the block's top-left corner, and in the last column and
\* row the canvas's last pixel, so the four corners of the canvas are samples.
FrameUnit == LANDSCAPE.width \div 5

SampleAt(c, cells, extent) == IF c = cells - 1 THEN extent - 1 ELSE c * FrameUnit

\* the pixel of the decoded source image at (sx, sy): <<r, g, b, a>>
SourcePixel(img, sx, sy) ==
    << (img.seed + 7 * sx + 13 * sy) % 256,
       (3 * img.seed + 5 * sx + 11 * sy + 85) % 256,
       (5 * img.seed + 3 * sx + 17 * sy + 170) % 256,
       IF img.opaque THEN 255 ELSE (img.seed + 31 * sx + 29 * sy) % 256 >>

\* source-over compositing of pixel s on pixel b, both <<r, g, b, a>>
Composite(s, b) ==
    LET rest == (b[4] * (255 - s[4]) + 127) \div 255
        a    == s[4] + rest
        mix(i) == IF a = 0 THEN 0
                  ELSE (s[i] * s[4] + b[i] * rest + (a \div 2)) \div a
    IN  <<mix(1), mix(2), mix(3), a>>

\* the canvas pixel at (px, py) after fillRect and drawImage
CanvasPixel(img, d, px, py) ==
    IF /\ d.dx <= px /\ px < d.dx + d.dw
       /\ d.dy <= py /\ py < d.dy + d.dh
    THEN Composite(SourcePixel(img, ((px - d.dx) * img.width) \div d.dw,
                                    ((py - d.dy) * img.height) \div d.dh),
                   d.fill)
    ELSE d.fill

\* ctx.getImageData(0, 0, target.width, target.height), at the samples
GetImageData(img, d) ==
    LET w == d.canvasWidth \div FrameUnit
        h == d.canvasHeight \div FrameUnit
    IN  [width  |-> w,
         height |-> h,
         data   |-> [k \in 0 .. (4 * w * h - 1) |->
                        CanvasPixel(img, d,
                                    SampleAt((k \div 4) % w, w, d.canvasWidth),
                                    SampleAt((k \div 4) \div w, h, d.canvasHeight))
                            [(k % 4) + 1]]]

\* if (mode === 'cut') resizeCut else resizeScale
ResizeFor(mode, img, t) ==
    IF mode = "cut" THEN resizeCut(img, t) ELSE resizeScale(img, t)

\* convert(file, options) up to the await of loadImage
ConvertCall ==
    /\ cpc = "idle"
    /\ cpc' = "loading"
    /\ UNCHANGED <<imageData, orig, dVars, qVars, eVars, uVars,
                   file, options, target, drawn, result>>

\* loadImage: img.onload
LoadResolve ==
    /\ cpc = "loading"
    /\ file.ok
    /\ cpc' = "loaded"
    /\ UNCHANGED <<imageData, orig, dVars, qVars, eVars, uVars,
                   file, options, target, drawn, result>>

\* loadImage: img.onerror; the await throws and convert rejects
LoadReject ==
    /\ cpc = "loading"
    /\ ~ file.ok
    /\ cpc' = "rejected"
    /\ UNCHANGED <<imageData, orig, dVars, qVars, eVars, uVars,
                   file, options, target, drawn, result>>

\* the target frame, and resizeCut or resizeScale
ConvertFit ==
    /\ cpc = "loaded"
    /\ LET t == TargetFor(OrientationOf(options), file)
           d == ResizeFor(ModeOf(options), file, t)
       IN  /\ target' = t
           /\ drawn' = d
           /\ imageData' = GetImageData(file, d)
           /\ orig' = GetImageData(file, d)
    /\ cpc' = "fitted"
    /\ UNCHANGED <<dVars, qVars, eVars, uVars, file, options, result>>

\* FloydSteinberg.dither(imageData, null, dither)
ConvertDither ==
    /\ cpc = "fitted"
    /\ DitherCall(DitherOf(options))

\* encode started without waiting for dither to return
EncodeMayStart_early == TRUE

\* BMPEncoder.encode comes after the statement that calls dither
EncodeMayStart == pc = "returned"

\* BMPEncoder.encode(ditheredData)
ConvertEncode ==
    /\ cpc = "fitted"
    /\ EncodeMayStart
    /\ EncodeCall

\* the preview canvas, and the returned object
ConvertReturn ==
    /\ cpc = "fitted"
    /\ pc = "returned"
    /\ epc = "done"
    /\ result' = [imageData   |-> imageData,
                  blob        |-> blob,
                  preview     |-> imageData,
                  width       |-> target.width,
                  height      |-> target.height,
                  orientation |-> IF target.width > target.height
                                  THEN "landscape" ELSE "portrait"]
    /\ cpc' = "returned"
    /\ UNCHANGED <<imageData, orig, dVars, qVars, eVars, uVars,
                   file, options, target, drawn>>

NoCrop == [x |-> -1, y |-> -1, width |-> 0, height |-> 0]

\* sizes of source images
SourceSizes ==
    { <<4000, 3000>>, <<10, 10>>, <<800, 480>>, <<480, 800>>, <<1, 1>>,
      <<3, 7>>, <<1000, 300>>, <<799, 481>> }

SourceImages ==
    { [width |-> s[1], height |-> s[2], ok |-> TRUE, seed |-> 101, opaque |-> o] :
        s \in SourceSizes, o \in BOOLEAN }
        \cup { [width |-> 0, height |-> 0, ok |-> FALSE, seed |-> 0, opaque |-> TRUE] }

\* crop rectangles a caller may pass for image img: none, the initial one
\* for target t, the initial one dragged to the top-left corner, a square
\* one (wrong aspect ratio), and one lying beyond the right edge
CropsFor(img, t) ==
    LET c == calculateInitialCrop(img.width, img.height,
                                  IF t = LANDSCAPE THEN "landscape" ELSE "portrait")
        m == IF img.width < img.height THEN img.width ELSE img.height
    IN  { NoCrop, c, [c EXCEPT !.x = 0, !.y = 0],
          [x |-> 0, y |-> 0, width |-> m * CropUnit, height |-> m * CropUnit],
          [c EXCEPT !.x = img.width * CropUnit] }

ConvertOptions(img) ==
    UNION { { [mode |-> m, orientation |-> o, dither |-> d, crop |-> c] :
                m \in {"", "scale", "cut"}, d \in {"absent", "false"},
                c \in IF img.ok
                      THEN CropsFor(img, TargetFor(OrientationOf([orientation |-> o]), img))
                      ELSE {NoCrop} }
            : o \in {"", "auto", "landscape", "portrait"} }

InitConvert ==
    /\ file \in SourceImages
    /\ options \in ConvertOptions(file)
    /\ cpc = "idle"
    /\ target = <<>>
    /\ drawn = <<>>
    /\ result = NoResult
    /\ imageData = RasterOf(1, 1, [i \in {0} |-> <<0, 0, 0>>])
    /\ orig = imageData
    /\ ditherOn = TRUE
    /\ pixels = <<>>
    /\ x = 0
    /\ y = 0
    /\ pc = "idle"
    /\ qin = <<>>
    /\ qout = <<>>
    /\ EncoderIdle
    /\ AppEmpty

NextConvert ==
    \/ ConvertCall
    \/ LoadResolve
    \/ LoadReject
    \/ ConvertFit
    \/ ConvertDither
    \/ DitherPixel
    \/ DitherReturn
    \/ ConvertEncode
    \/ EncodePixel
    \/ EncodeReturn
    \/ ConvertReturn

SpecConvert == InitConvert /\ [][NextConvert]_vars

\* The fit alone, for every source size up to MaxSrc x MaxSrc and the sizes of
\* SourceSizes: convert is followed up to the raster that resizeScale or
\* resizeCut returns.
MaxSrc == 24

FitImages ==
    { [width |-> w, height |-> h, ok |-> TRUE, seed |-> 101, opaque |-> o] :
        w \in 1 .. MaxSrc, h \in 1 .. MaxSrc, o \in BOOLEAN }
        \cup { i \in SourceImages : i.ok }

FitOptions ==
    { [mode |-> m, orientation |-> o, dither |-> "absent", crop |-> NoCrop] :
        m \in {"scale", "cut"}, o \in {"landscape", "portrait", "auto"} }

InitFit ==
    /\ file \in FitImages
    /\ options \in FitOptions
    /\ cpc = "idle"
    /\ target = <<>>
    /\ drawn = <<>>
    /\ result = NoResult
    /\ imageData = RasterOf(1, 1, [i \in {0} |-> <<0, 0, 0>>])
    /\ orig = imageData
    /\ ditherOn = TRUE
    /\ pixels = <<>>
    /\ x = 0
    /\ y = 0
    /\ pc = "idle"
    /\ qin = <<>>
    /\ qout = <<>>
    /\ EncoderIdle
    /\ AppEmpty

NextFit ==
    \/ ConvertCall
    \/ LoadResolve
    \/ ConvertFit

SpecFit == InitFit /\ [][NextFit]_vars

-----------------------------------------------------------------------------
(* The app: image cards, crop editor, orientation buttons *)

\* the sizes of the image files dropped on the page: a square one, and one
\* of the landscape frame's shape
DroppedFiles == << <<5, 5>>, <<5, 3>> >>

\* the ids generateId hands out, one per file; an id is handed out once
Ids == DOMAIN DroppedFiles

\* clientX, clientY of pointer-down events: handleDrag uses a move's
\* coordinates only in the differences clientX - startX, clientY - startY,
\* so one starting point stands for all
DownPoints == { <<0, 0>> }

\* clientX, clientY of pointer-move events
PointerPoints == { <<0, 0>>, <<2, 1>>, <<-2, -1>> }

\* imgRect.width / imgWidth = imgRect.height / imgHeight, as a fraction
\* <<numerator, denominator>>: the image shown at full and at half size
DisplayScales == { <<1, 1>>, <<1, 2>> }

\* convertSingle(id) calls that may wait at their await at one time
MaxCalls == 1

Min(a, b) == IF a < b THEN a ELSE b
Max(a, b) == IF a > b THEN a ELSE b

\* Math.min(v, hi) alone
ClampTo_noLower(v, hi) == Min(v, hi)

\* Math.max(0, Math.min(v, hi))
ClampTo(v, hi) == Max(0, Min(v, hi))

\* a function with key k set to v, k in its domain or not
Put(f, k, v) == [j \in DOMAIN f \cup {k} |-> IF j = k THEN v ELSE f[j]]

CallsOf(id) == IF id \in DOMAIN calls THEN calls[id] ELSE 0

\* addImages for one file: the record it stores under a new id, and the
\* card with its CONVERT button; generateId starts with the time, so ids
\* grow, and the Map keeps them in this order
AddImage(id, w, h) ==
    /\ id \notin DOMAIN disabled
    /\ id = Cardinality(DOMAIN disabled) + 1
    /\ LET orientation == IF w > h THEN "landscape" ELSE "portrait"
       IN  images' = Put(images, id,
                         [converted   |-> FALSE,
                          blob        |-> "null",
                          crop        |-> calculateInitialCrop(w, h, orientation),
                          orientation |-> orientation,
                          imgWidth    |-> w,
                          imgHeight   |-> h])
    /\ disabled' = Put(disabled, id, FALSE)
    /\ UNCHANGED <<imageData, orig, dVars, qVars, eVars, cVars, drag, calls,
                   awaited, converting, batch>>

\* initializeCropFrame(id), run from requestAnimationFrame: setupCropDrag(id)
SetupCropDrag(id) ==
    /\ id \in DOMAIN images
    /\ id \notin DOMAIN drag
    /\ drag' = Put(drag, id, [isDragging |-> FALSE, startX |-> 0, startY |-> 0,
                              startCropX |-> 0, startCropY |-> 0])
    /\ UNCHANGED <<imageData, orig, dVars, qVars, eVars, cVars, images, calls, bVars>>

\* setOrientation(id, orientation); nothing for a missing or converted image
SetOrientation(id, orientation) ==
    /\ IF id \notin DOMAIN images \/ images[id].converted
       THEN images' = images
       ELSE images' = [images EXCEPT
                ![id].orientation = orientation,
                ![id].crop = calculateInitialCrop(images[id].imgWidth,
                                                  images[id].imgHeight, orientation)]
    /\ UNCHANGED <<imageData, orig, dVars, qVars, eVars, cVars, drag, calls, bVars>>

\* the mousedown and the touchstart listener of the crop frame of card id
PointerDown(id, p) ==
    /\ id \in DOMAIN drag
    /\ id \in DOMAIN images
    /\ drag' = [drag EXCEPT ![id] = [isDragging |-> TRUE,
                                     startX     |-> p[1],
                                     startY     |-> p[2],
                                     startCropX |-> images[id].crop.x,
                                     startCropY |-> images[id].crop.y]]
    /\ UNCHANGED <<imageData, orig, dVars, qVars, eVars, cVars, images, calls, bVars>>

\* handleDrag with crop replaced by a new object { x, y }
handleDrag_newCrop(img, d, clientX, clientY, scale) ==
    LET deltaX == ((clientX - d.startX) * CropUnit * scale[2]) \div scale[1]
        deltaY == ((clientY - d.startY) * CropUnit * scale[2]) \div scale[1]
        newX == ClampTo(d.startCropX + deltaX, img.imgWidth * CropUnit - img.crop.width)
        newY == ClampTo(d.startCropY + deltaY, img.imgHeight * CropUnit - img.crop.height)
    IN  [img EXCEPT !.crop = [x |-> newX, y |-> newY, width |-> 0, height |-> 0]]

\* handleDrag(clientX, clientY) on image record img with closure d; scale is
\* scaleX = scaleY; the result is the record after the two assignments
handleDrag(img, d, clientX, clientY, scale) ==
    LET deltaX == ((clientX - d.startX) * CropUnit * scale[2]) \div scale[1]
        deltaY == ((clientY - d.startY) * CropUnit * scale[2]) \div scale[1]
        newX == ClampTo(d.startCropX + deltaX, img.imgWidth * CropUnit - img.crop.width)
        newY == ClampTo(d.startCropY + deltaY, img.imgHeight * CropUnit - img.crop.height)
    IN  [img EXCEPT !.crop.x = newX, !.crop.y = newY]

\* onMouseMove / onTouchMove of the closure of id, on the document between
\* pointer down and pointer up; handleDrag returns at once when the image
\* has been removed
PointerMove(id, p, scale) ==
    /\ id \in DOMAIN drag
    /\ drag[id].isDragging
    /\ IF id \notin DOMAIN images
       THEN images' = images
       ELSE images' = [images EXCEPT
                ![id] = handleDrag(images[id], drag[id], p[1], p[2], scale)]
    /\ UNCHANGED <<imageData, orig, dVars, qVars, eVars, cVars, drag, calls, bVars>>

\* onMouseUp / onTouchEnd
PointerUp(id) ==
    /\ id \in DOMAIN drag
    /\ drag[id].isDragging
    /\ drag' = [drag EXCEPT ![id].isDragging = FALSE]
    /\ UNCHANGED <<imageData, orig, dVars, qVars, eVars, cVars, images, calls, bVars>>

\* convertSingle's test "!imageData || imageData.converted" is false
NeedsConvert(imgs, id) == id \in DOMAIN imgs /\ ~ imgs[id].converted

\* the Map after convertSingle(id) has set converted, blob and dataURL on the
\* record it holds (a record no longer in the Map is not seen)
AfterResolve(imgs, id) ==
    IF id \in DOMAIN imgs
    THEN [imgs EXCEPT ![id].converted = TRUE, ![id].blob = "bmp"]
    ELSE imgs

\* the button flags after convertSingle(id) went through its try block
\* behind the await: the preview placeholder of a record that was converted
\* before has left its parent, replaceChild throws on the null parentNode
\* and the catch enables the button again
ButtonsAfterResolve(btns, imgs, id) ==
    IF id \in DOMAIN imgs /\ imgs[id].converted
    THEN [btns EXCEPT ![id] = FALSE]
    ELSE btns

\* the button flags after the catch block of convertSingle(id)
ButtonsAfterReject(btns, id) == [btns EXCEPT ![id] = FALSE]

\* a click on the CONVERT button of card id: convertSingle(id) up to its
\* await; it returns at once for a converted image
ConvertSingleCall(id) ==
    /\ id \in DOMAIN images
    /\ ~ disabled[id]
    /\ IF NeedsConvert(images, id)
       THEN /\ CallsOf(id) < MaxCalls
            /\ calls' = Put(calls, id, CallsOf(id) + 1)
            /\ disabled' = [disabled EXCEPT ![id] = TRUE]
       ELSE UNCHANGED <<calls, disabled>>
    /\ UNCHANGED <<imageData, orig, dVars, qVars, eVars, cVars, images, drag,
                   awaited, converting, batch>>

\* convertSingle(id), called from the button, after ImageConverter.convert
\* has resolved
ConvertSingleResolve(id) ==
    /\ CallsOf(id) > 0
    /\ calls' = [calls EXCEPT ![id] = @ - 1]
    /\ images' = AfterResolve(images, id)
    /\ disabled' = ButtonsAfterResolve(disabled, images, id)
    /\ UNCHANGED <<imageData, orig, dVars, qVars, eVars, cVars, drag,
                   awaited, converting, batch>>

\* convertSingle(id), called from the button, after ImageConverter.convert
\* has rejected: the catch
ConvertSingleReject(id) ==
    /\ CallsOf(id) > 0
    /\ calls' = [calls EXCEPT ![id] = @ - 1]
    /\ disabled' = ButtonsAfterReject(disabled, id)
    /\ UNCHANGED <<imageData, orig, dVars, qVars, eVars, cVars, images, drag,
                   awaited, converting, batch>>

\* removeImage(id)
RemoveImage(id) ==
    /\ id \in DOMAIN images
    /\ images' = [j \in DOMAIN images \ {id} |-> images[j]]
    /\ UNCHANGED <<imageData, orig, dVars, qVars, eVars, cVars, drag, calls, bVars>>

\* a page just loaded
InitUI ==
    /\ AppEmpty
    /\ ConverterIdle
    /\ EncoderIdle
    /\ imageData = RasterOf(1, 1, [i \in {0} |-> <<0, 0, 0>>])
    /\ orig = imageData
    /\ ditherOn = TRUE
    /\ pixels = <<>>
    /\ x = 0
    /\ y = 0
    /\ pc = "idle"
    /\ qin = <<>>
    /\ qout = <<>>

NextUI ==
    \/ \E id \in Ids : AddImage(id, DroppedFiles[id][1], DroppedFiles[id][2])
    \/ \E id \in Ids : SetupCropDrag(id)
    \/ \E id \in Ids, o \in {"landscape", "portrait"} : SetOrientation(id, o)
    \/ \E id \in Ids, p \in DownPoints : PointerDown(id, p)
    \/ \E id \in Ids, p \in PointerPoints, s \in DisplayScales : PointerMove(id, p, s)
    \/ \E id \in Ids : PointerUp(id)
    \/ \E id \in Ids : ConvertSingleCall(id)
    \/ \E id \in Ids : ConvertSingleResolve(id)
    \/ \E id \in Ids : ConvertSingleReject(id)
    \/ \E id \in Ids : RemoveImage(id)

SpecUI == InitUI /\ [][NextUI]_vars

\* calculateInitialCrop alone: one image of any size up to MaxSrc x MaxSrc is
\* added and its orientation set
NextCrop ==
    \/ \E w \in 1 .. MaxSrc, h \in 1 .. MaxSrc : AddImage(1, w, h)
    \/ \E o \in {"landscape", "portrait"} : SetOrientation(1, o)

SpecCrop == InitUI /\ [][NextCrop]_vars

-----------------------------------------------------------------------------
(* The app: convertAll *)

\* the files dropped on the page in the runs of convertAll: sizes by id
BatchFiles == << <<5, 5>>, <<5, 3>>, <<3, 5>> >>

BatchIds == DOMAIN BatchFiles

AwaitedOf(id) == IF id \in DOMAIN awaited THEN awaited[id] ELSE 0

\* Array.from(state.images.entries()).filter(([_, data]) => !data.converted),
\* the ids only: the Map lists its entries in the order they were added
Unconverted(imgs) ==
    LET IsUnconverted(id) == NeedsConvert(imgs, id)
    IN SelectSeq([i \in 1 .. Cardinality(DOMAIN disabled) |-> i], IsUnconverted)

\* the first place from k on in the array whose convertSingle call does not
\* return at once, Len(list) + 1 if there is none
RECURSIVE NextToConvert(_, _, _)
NextToConvert(list, k, imgs) ==
    IF k > Len(list) THEN k
    ELSE IF NeedsConvert(imgs, list[k]) THEN k
    ELSE NextToConvert(list, k + 1, imgs)

\* the first line of convertAll: a run is in progress
Reentered_never(c) == FALSE
Reentered(c) == c

\* the try/catch of convertSingle keeps a rejection of
\* ImageConverter.convert inside convertSingle
Caught_rethrown == FALSE
Caught == TRUE

\* the flag left as the run set it
ConvertingAfterLoop_kept == TRUE

\* state.converting = false, behind the loop
ConvertingAfterLoop == FALSE

\* the for loop of convertAll from place `from` of the array on, up to the
\* next await that waits for an image to load, or to the end of convertAll
RunFrom(list, failed, refused, from, imgs, btns, aw) ==
    LET j == NextToConvert(list, from, imgs)
    IN  IF j <= Len(list)
        THEN /\ awaited' = Put(aw, list[j],
                             (IF list[j] \in DOMAIN aw THEN aw[list[j]] ELSE 0) + 1)
             /\ disabled' = [btns EXCEPT ![list[j]] = TRUE]
             /\ converting' = TRUE
             /\ batch' = [unconverted |-> list, k |-> j, failed |-> failed,
                          refused |-> refused]
        ELSE /\ awaited' = aw
             /\ disabled' = btns
             /\ converting' = ConvertingAfterLoop
             /\ batch' = [unconverted |-> list, k |-> j, failed |-> failed,
                          refused |-> refused]

\* convertAll() up to its first await that waits for an image to load; the
\* CONVERT ALL button calls it (updateUI disables the button while
\* state.converting is set), a call during a run returns at its first line
ConvertAllCall ==
    /\ IF Reentered(converting)
       THEN /\ batch' = [batch EXCEPT !.refused = TRUE]
            /\ UNCHANGED <<awaited, disabled, converting>>
       ELSE RunFrom(Unconverted(images), {}, FALSE, 1, images, disabled, awaited)
    /\ UNCHANGED <<imageData, orig, dVars, qVars, eVars, cVars, images, drag, calls>>

\* the id of the convertSingle call convertAll waits for
AwaitedId == batch.unconverted[batch.k]

\* a convertSingle call is awaited by convertAll
Awaiting ==
    /\ batch.k \in 1 .. Len(batch.unconverted)
    /\ AwaitedOf(AwaitedId) > 0

\* ImageConverter.convert resolves in the convertSingle call convertAll waits
\* for: the rest of convertSingle, then convertAll goes on
BatchResolve ==
    /\ Awaiting
    /\ images' = AfterResolve(images, AwaitedId)
    /\ RunFrom(batch.unconverted, batch.failed, batch.refused, batch.k + 1,
               AfterResolve(images, AwaitedId),
               ButtonsAfterResolve(disabled, images, AwaitedId),
               [j \in DOMAIN awaited \ {AwaitedId} |-> awaited[j]])
    /\ UNCHANGED <<imageData, orig, dVars, qVars, eVars, cVars, drag, calls>>

\* ImageConverter.convert rejects in the convertSingle call convertAll waits
\* for: the catch of convertSingle, then convertAll goes on
BatchReject ==
    /\ Awaiting
    /\ images' = images
    /\ IF Caught
       THEN RunFrom(batch.unconverted, batch.failed \cup {batch.k},
                    batch.refused, batch.k + 1, images,
                    ButtonsAfterReject(disabled, AwaitedId),
                    [j \in DOMAIN awaited \ {AwaitedId} |-> awaited[j]])
       ELSE /\ awaited' = [j \in DOMAIN awaited \ {AwaitedId} |-> awaited[j]]
            /\ batch' = [batch EXCEPT !.failed = @ \cup {batch.k}]
            /\ UNCHANGED <<disabled, converting>>
    /\ UNCHANGED <<imageData, orig, dVars, qVars, eVars, cVars, drag, calls>>

\* clearAll()
ClearAll ==
    /\ images' = <<>>
    /\ UNCHANGED <<imageData, orig, dVars, qVars, eVars, cVars, drag, calls, bVars>>

NextBatch ==
    \/ \E id \in BatchIds : AddImage(id, BatchFiles[id][1], BatchFiles[id][2])
    \/ \E id \in BatchIds : ConvertSingleCall(id)
    \/ \E id \in BatchIds : ConvertSingleResolve(id)
    \/ \E id \in BatchIds : ConvertSingleReject(id)
    \/ \E id \in BatchIds : RemoveImage(id)
    \/ ClearAll
    \/ ConvertAllCall
    \/ BatchResolve
    \/ BatchReject

SpecBatch == InitUI /\ [][NextBatch]_vars

\* an image that is loading ends loading, with or without an error
SpecBatchFair ==
    SpecBatch /\ WF_vars(BatchResolve \/ BatchReject)

-----------------------------------------------------------------------------
(* Properties of ImageConverter.convert *)

\* the B, G, R bytes of pixel (fx, fy) of raster img in file bytes b, as <<r, g, b>>
FileRGB(b, img, fx, fy) ==
    LET dst == 54 + (img.height - 1 - fy) * StrideOf(img.width) + 3 * fx
    IN  <<b[dst + 2], b[dst + 1], b[dst]>>

\* C11: convert fits, then quantizes, then encodes one raster: encode starts
\* only after dither has returned and dither only after the fit; when convert
\* returns, every pixel of the returned raster is a palette colour, the file's
\* pixel bytes are the B, G, R of that raster's pixels (so of palette colours),
\* the returned blob is the encoder's, and the preview shows the same raster.
C11_FitQuantizeEncode ==
    /\ pc # "idle" => cpc \in {"fitted", "returned"}
    /\ epc # "idle" => pc = "returned"
    /\ cpc = "returned" =>
          /\ epc = "done"
          /\ result.blob = blob
          /\ result.imageData = imageData
          /\ result.preview = result.imageData
          /\ imageData.width = orig.width
          /\ imageData.height = orig.height
          /\ \A fy \in 0 .. (imageData.height - 1) :
                \A fx \in 0 .. (imageData.width - 1) :
                    /\ RGBAt(imageData, fy * imageData.width + fx) \in PaletteSet
                    /\ FileRGB(result.blob.bytes, imageData, fx, fy)
                           = RGBAt(result.imageData, fy * imageData.width + fx)
          /\ ~ ditherOn =>
                \A i \in 0 .. (NumPixels - 1) :
                    LET c == Fx3(RGBAt(orig, i))
                    IN  RGBAt(imageData, i) =
                            findNearestColor(c[1], c[2], c[3], EINK_PALETTE)

\* a 4000x3000 photo converted with dithering: the raster came back changed
\* and the file holds all of its rows
C11_Witness ==
    /\ cpc = "returned"
    /\ file.width = 4000
    /\ ditherOn
    /\ result.imageData # orig
    /\ DOMAIN result.blob.bytes =
           0 .. (54 + StrideOf(imageData.width) * imageData.height - 1)
    /\ FileRGB(result.blob.bytes, imageData, 0, 0) \in PaletteSet

\* C12: once the target is chosen it is 800x480 for orientation 'landscape'
\* and 480x800 for 'portrait' whatever the source's size; for 'auto' or no
\* orientation it is 800x480 exactly when the source is wider than tall and
\* 480x800 otherwise (a square source included); and the result's width,
\* height and orientation are the target's.
C12_TargetByOrientation ==
    /\ cpc \in {"fitted", "returned"} =>
          /\ options.orientation = "landscape" =>
                target = [width |-> 800, height |-> 480]
          /\ options.orientation = "portrait" =>
                target = [width |-> 480, height |-> 800]
          /\ options.orientation \in {"", "auto"} =>
                /\ file.width > file.height =>
                      target = [width |-> 800, height |-> 480]
                /\ file.width <= file.height =>
                      target = [width |-> 480, height |-> 800]
    /\ cpc = "returned" =>
          /\ result.width = target.width
          /\ result.height = target.height
          /\ result.orientation = "landscape" <=> target.width = 800
          /\ result.orientation = "portrait" <=> target.width = 480

\* a square source converted without an orientation came out as portrait
C12_Witness ==
    /\ cpc = "returned"
    /\ file.width = 10
    /\ file.height = 10
    /\ options.orientation = ""
    /\ result.width = 480
    /\ result.height = 800
    /\ result.orientation = "portrait"

\* n is Math.round of the fraction num / den (den > 0): the nearest integer,
\* the upper one at a half
IsRounded(n, num, den) ==
    /\ 2 * num - den < 2 * n * den
    /\ 2 * n * den <= 2 * num + den

\* the canvas pixel (px, py) lies inside the rectangle the image was drawn to
Covered(d, px, py) ==
    /\ d.dx <= px /\ px < d.dx + d.dw
    /\ d.dy <= py /\ py < d.dy + d.dh

\* C13: with ratio = max(tw/srcW, th/srcH), the drawn size is
\* rw = round(srcW*ratio), rh = round(srcH*ratio) at left = floor((tw-rw)/2),
\* top = floor((th-rh)/2), and rw >= tw, rh >= th, left <= 0, top <= 0,
\* left+rw >= tw, top+rh >= th: every sampled canvas pixel, the four corners
\* among them, lies inside the drawn image, so no white border shows.
C13_CoverAndCenter ==
    cpc = "fitted" =>
        LET tw == target.width
            th == target.height
            byWidth == tw * file.height >= th * file.width
            num == IF byWidth THEN tw ELSE th
            den == IF byWidth THEN file.width ELSE file.height
            rw == drawn.dw
            rh == drawn.dh
            left == drawn.dx
            top == drawn.dy
        IN  /\ IsRounded(rw, file.width * num, den)
            /\ IsRounded(rh, file.height * num, den)
            /\ 2 * left <= tw - rw /\ tw - rw < 2 * left + 2
            /\ 2 * top <= th - rh /\ th - rh < 2 * top + 2
            /\ rw >= tw
            /\ rh >= th
            /\ left <= 0
            /\ top <= 0
            /\ left + rw >= tw
            /\ top + rh >= th
            /\ \A px \in {0, tw - 1} \cup { c * FrameUnit : c \in 0 .. 4 } :
                  \A py \in {0, th - 1} \cup { c * FrameUnit : c \in 0 .. 4 } :
                      (px < tw /\ py < th) => Covered(drawn, px, py)

\* a 3x7 source on the landscape frame: drawn 800x1867 at (0, -694)
C13_Witness ==
    /\ cpc = "fitted"
    /\ file.width = 3
    /\ file.height = 7
    /\ target = LANDSCAPE
    /\ drawn.dw = 800
    /\ drawn.dh = 1867
    /\ drawn.dx = 0
    /\ drawn.dy = -694

\* C14: the fitted raster is the whole target canvas, 800x480 or 480x800
\* (here in blocks of FrameUnit pixels), for every source size and both
\* modes, each of its alpha bytes is 255 even where the source is
\* translucent, and the result's width and height are the target's.
C14_FittedIsTargetSized ==
    /\ cpc \in {"fitted", "returned"} =>
          /\ target \in { [width |-> 800, height |-> 480],
                          [width |-> 480, height |-> 800] }
          /\ drawn.canvasWidth = target.width
          /\ drawn.canvasHeight = target.height
          /\ orig.width * FrameUnit = target.width
          /\ orig.height * FrameUnit = target.height
          /\ DOMAIN orig.data = 0 .. (4 * orig.width * orig.height - 1)
          /\ \A i \in 0 .. (orig.width * orig.height - 1) :
                orig.data[4 * i + 3] = 255
    /\ cpc = "returned" =>
          /\ result.width = target.width
          /\ result.height = target.height
          /\ result.imageData.width = orig.width
          /\ result.imageData.height = orig.height

\* a translucent 10x10 source, mode 'cut': a 480x800 raster, opaque
C14_Witness ==
    /\ cpc = "returned"
    /\ file.width = 10
    /\ file.height = 10
    /\ ~ file.opaque
    /\ SourcePixel(file, 0, 0)[4] < 255
    /\ options.mode = "cut"
    /\ orig.width * FrameUnit = 480
    /\ orig.height * FrameUnit = 800
    /\ orig.data[3] = 255
    /\ result.width = 480
    /\ result.height = 800

\* C15: whichever mode was asked for, the canvas, the drawn size and offset
\* and the fitted raster are those of resizeScale and also those of
\* resizeCut: the two functions agree on every source and target.
C15_ModesAgree ==
    cpc = "fitted" =>
        /\ resizeScale(file, target) = resizeCut(file, target)
        /\ drawn = resizeScale(file, target)
        /\ drawn = resizeCut(file, target)
        /\ orig = GetImageData(file, resizeScale(file, target))
        /\ orig = GetImageData(file, resizeCut(file, target))

\* mode 'cut' on a 7x3 source for the portrait frame: the drawn image
\* overhangs the canvas on both sides, exactly as resizeScale places it
C15_Witness ==
    /\ cpc = "fitted"
    /\ options.mode = "cut"
    /\ file.width = 7
    /\ file.height = 3
    /\ target = PORTRAIT
    /\ drawn.dw = 1867
    /\ drawn.dx = -694
    /\ drawn = resizeScale(file, target)

\* crop c has the aspect ratio of frame t and lies inside source image img
CropValid(c, img, t) ==
    /\ c.width > 0
    /\ c.width * t.height = c.height * t.width
    /\ 0 <= c.x /\ c.x + c.width <= img.width * CropUnit
    /\ 0 <= c.y /\ c.y + c.height <= img.height * CropUnit

\* the part of the source that shows on the canvas is rectangle c, to within
\* one canvas pixel: source column sx is drawn at dx + sx*dw/srcW, so the
\* crop's left edge falls on canvas column 0 and its width on the canvas's
\* width; likewise for rows
RegionUsedIs(c, img, d) ==
    /\ Abs(d.dx * img.width * CropUnit + c.x * d.dw) <= img.width * CropUnit
    /\ Abs(d.dy * img.height * CropUnit + c.y * d.dh) <= img.height * CropUnit
    /\ Abs(d.canvasWidth * img.width * CropUnit - c.width * d.dw)
           <= img.width * CropUnit
    /\ Abs(d.canvasHeight * img.height * CropUnit - c.height * d.dh)
           <= img.height * CropUnit

\* C16: when the options carry a crop rectangle of the target's aspect ratio
\* inside the source, the fitted raster shows exactly that rectangle of the
\* source.
C16_CropIsRegionUsed ==
    ( /\ cpc \in {"fitted", "returned"}
      /\ options.crop # NoCrop
      /\ CropValid(options.crop, file, target) )
        => RegionUsedIs(options.crop, file, drawn)

\* C17: a conversion whose options carry a crop rectangle of another aspect
\* ratio, or one not inside the source, is never fitted, produces no blob
\* and returns no result.
C17_InvalidCropRejected ==
    ( /\ file.ok
      /\ options.crop # NoCrop
      /\ ~ CropValid(options.crop, file, TargetFor(OrientationOf(options), file)) )
        => /\ cpc \notin {"fitted", "returned"}
           /\ blob = NoBlob
           /\ result = NoResult

-----------------------------------------------------------------------------
(* Properties of the crop editor *)

\* the target frame of an orientation
FrameOf(orientation) ==
    IF orientation = "landscape" THEN [width |-> 800, height |-> 480]
    ELSE [width |-> 480, height |-> 800]

\* C18: the crop calculateInitialCrop gives an image of any size, in either
\* orientation, has width/height = the target's 800/480 or 480/800, is no
\* wider and no taller than the image and as wide or as tall as it, and sits
\* at x = (imgW - width)/2 >= 0, y = (imgH - height)/2 >= 0.
C18_InitialCropCentredMaximal ==
    \A id \in DOMAIN images :
        LET img == images[id]
            c   == img.crop
            t   == FrameOf(img.orientation)
            W   == img.imgWidth * CropUnit
            H   == img.imgHeight * CropUnit
        IN  /\ c.width * t.height = c.height * t.width
            /\ c.width > 0
            /\ c.width <= W
            /\ c.height <= H
            /\ c.width = W \/ c.height = H
            /\ 2 * c.x = W - c.width
            /\ 2 * c.y = H - c.height
            /\ c.x >= 0
            /\ c.y >= 0

\* a 10x3 image turned to portrait: a crop 1.8 wide, 3 high, at x = 4.1
C18_Witness ==
    /\ 1 \in DOMAIN images
    /\ images[1].imgWidth = 10
    /\ images[1].imgHeight = 3
    /\ images[1].orientation = "portrait"
    /\ images[1].crop = [x |-> 123, y |-> 0, width |-> 54, height |-> 90]

\* C19: in every state each image's crop lies inside the image,
\* 0 <= x <= imgWidth - width and 0 <= y <= imgHeight - height, and has the
\* aspect ratio of the frame of the image's orientation.
C19_CropInsideAndAspect ==
    \A id \in DOMAIN images :
        LET img == images[id]
            c   == img.crop
            t   == FrameOf(img.orientation)
        IN  /\ 0 <= c.x
            /\ c.x <= img.imgWidth * CropUnit - c.width
            /\ 0 <= c.y
            /\ c.y <= img.imgHeight * CropUnit - c.height
            /\ c.width > 0
            /\ c.width * t.height = c.height * t.width

\* a drag begun in landscape (at crop y = 1) goes on after the square image
\* was turned to portrait: the crop has been pulled to the left edge
C19_Witness ==
    /\ 1 \in DOMAIN images
    /\ 1 \in DOMAIN drag
    /\ drag[1].isDragging
    /\ drag[1].startCropY = CropUnit
    /\ images[1].orientation = "portrait"
    /\ images[1].crop.x = 0
    /\ images[1].crop.y = 0

\* a step of the move listener of card id
IsDragStep(id) ==
    \E p \in PointerPoints, s \in DisplayScales : PointerMove(id, p, s)

\* C20: a drag step on an image changes nothing but crop.x and crop.y of
\* that image: its other fields, the other images and the set of images stay.
C20_DragMovesOnlyPosition ==
    [][ \A id \in Ids :
          \/ /\ DOMAIN images' = DOMAIN images
             /\ \A j \in DOMAIN images :
                   /\ j # id => images'[j] = images[j]
                   /\ images'[j].crop.width = images[j].crop.width
                   /\ images'[j].crop.height = images[j].crop.height
                   /\ [images'[j] EXCEPT !.crop = 0] = [images[j] EXCEPT !.crop = 0]
          \/ ~ IsDragStep(id)
      ]_vars

\* the crop of converted image 2 has been dragged off its initial place
\* while image 1 is there too
C20_Witness ==
    /\ DOMAIN images = {1, 2}
    /\ 2 \in DOMAIN drag
    /\ drag[2].isDragging
    /\ images[2].converted
    /\ images[2].orientation = "portrait"
    /\ images[2].crop.x # drag[2].startCropX
    /\ images[2].crop.width = 54

-----------------------------------------------------------------------------
(* Properties of convertAll *)

\* the latest convertAll run has reached its end
RunDone == ~ converting /\ batch.k = Len(batch.unconverted) + 1

\* the convertSingle calls convertAll waits for, over all images
TotalAwaited ==
    LET RECURSIVE Sum(_)
        Sum(S) == IF S = {} THEN 0
                  ELSE LET id == CHOOSE i \in S : TRUE
                       IN awaited[id] + Sum(S \ {id})
    IN Sum(DOMAIN awaited)

\* a step in which the conversion awaited by convertAll fails
IsBatchFailure == batch.k \in batch'.failed \ batch.failed

\* after the step, convertAll waits for a later image of its array or has
\* reached its end
RunGoesOn ==
    /\ batch'.unconverted = batch.unconverted
    /\ batch'.k > batch.k
    /\ \/ converting' /\ Awaiting' /\ NeedsConvert(images', AwaitedId')
       \/ RunDone'

\* C21: a conversion that fails during a convertAll run fails only its image:
\* the step that handles the failure writes no image record (an image not
\* converted stays with converted = false and blob = null), enables the
\* card's button again, and convertAll goes on to the next image or to its
\* end; when the run has ended, every image of its array that is still on
\* the page and whose conversion did not fail is converted and has its blob.
C21_FailureStaysInItsImage ==
    /\ [][IsBatchFailure =>
            /\ images' = images
            /\ ~ disabled'[AwaitedId]
            /\ RunGoesOn]_vars
    /\ [](\A id \in DOMAIN images :
            images[id].converted <=> images[id].blob # "null")
    /\ [](RunDone =>
            \A p \in DOMAIN batch.unconverted \ batch.failed :
                batch.unconverted[p] \in DOMAIN images =>
                    /\ images[batch.unconverted[p]].converted
                    /\ images[batch.unconverted[p]].blob = "bmp")

\* a run over three images has ended: the conversion of the first failed and
\* left it unconverted, the two after it are converted
C21_Witness ==
    /\ RunDone
    /\ batch.unconverted = <<1, 2, 3>>
    /\ batch.failed = {1}
    /\ DOMAIN images = {1, 2, 3}
    /\ ~ images[1].converted /\ images[1].blob = "null" /\ ~ disabled[1]
    /\ images[2].converted /\ images[3].converted

-----------------------------------------------------------------------------
(* Properties of the working buffer *)

\* the error of the pixel the step has quantized, per channel
StepError(c) ==
    Clamp255(pixels[(y * imageData.width + x) * 3 + c])
        - Fx(imageData'.data[(y * imageData.width + x) * 4 + c])

\* C22: while FloydSteinberg.dither runs on an 8-bit raster, every value of
\* the working buffer lies in [-255, 510]: each error component lies in
\* [-255, 255], being taken from the clamped value, and a pixel receives
\* at most 16/16 of such errors from the neighbours processed before it.
C22_BufferRange ==
    /\ [](pc = "loop" =>
            \A i \in DOMAIN pixels :
                pixels[i] >= 0 - Fx(255) /\ pixels[i] <= Fx(510))
    /\ [][pc = "loop" /\ y < imageData.height =>
            \A c \in 0 .. 2 :
                StepError(c) >= 0 - Fx(255) /\ StepError(c) <= Fx(255)]_vars

\* a 3x2 raster whose pixel (1, 1) has received error from all four of its
\* neighbours, with a buffer value above 255 and one below 0 in the buffer
C22_Witness ==
    /\ pc = "loop"
    /\ ditherOn
    /\ imageData.width = 3 /\ imageData.height = 2
    /\ y = 1 /\ x = 1
    /\ \E i \in DOMAIN pixels : pixels[i] > Fx(255)
    /\ \E i \in DOMAIN pixels : pixels[i] < 0

-----------------------------------------------------------------------------
(* Properties of concurrent conversions *)

\* the ImageConverter.convert calls in flight for image id: those started by
\* the card's CONVERT button and those started by convertAll
InFlight(id) == CallsOf(id) + AwaitedOf(id)

\* C23: under any interleaving of clicks on the cards' CONVERT buttons and
\* on CONVERT ALL, at most one ImageConverter.convert call is in flight for
\* any image at any time.
C23_OneConversionPerImage ==
    \A id \in BatchIds : InFlight(id) <= 1

\* a step in which a convertAll call made during a run returns at its first
\* line (the first such call of the run)
IsRefusedCall == batch'.refused /\ ~ batch.refused

\* C24: convertAll is not re-entrant and converts one image after another:
\* a convertAll call made while state.converting is set starts no conversion
\* and changes nothing; during a run the array of the run stays and its place
\* only moves forward, convertAll waits for exactly one conversion, that of
\* the image at the place, and outside a run it waits for none.
C24_NonReentrantSequential ==
    /\ [][IsRefusedCall =>
            /\ converting
            /\ UNCHANGED <<images, drag, calls, awaited, disabled, converting>>
            /\ batch' = [batch EXCEPT !.refused = TRUE]]_vars
    /\ [][converting /\ converting' =>
            /\ batch'.unconverted = batch.unconverted
            /\ batch'.k >= batch.k
            /\ (batch'.k > batch.k => AwaitedOf(AwaitedId)' = 1 /\ AwaitedOf(AwaitedId') = 0)]_vars
    /\ [](TotalAwaited <= 1)
    /\ [](converting => Awaiting /\ TotalAwaited = 1)
    /\ [](~ converting => TotalAwaited = 0)

\* convertAll waits for the second image of its array, after the first has
\* been converted, and a further convertAll call has been made during the run
C24_Witness ==
    /\ converting
    /\ batch.refused
    /\ Len(batch.unconverted) >= 2
    /\ batch.k = 2
    /\ 1 \in DOMAIN images /\ images[1].converted
    /\ AwaitedOf(2) = 1 /\ AwaitedOf(1) = 0

-----------------------------------------------------------------------------
(* Termination of convertAll *)

\* C25: every convertAll run comes to its end with state.converting = false,
\* given that every image load ends (with or without an error): also when
\* conversions fail, when there is nothing to convert, and when images are
\* removed or all cleared during the run.
C25_RunEnds == converting ~> RunDone

\* a run over three images has ended in which the first conversion failed,
\* the second image was removed during the run, and the third was converted
C25_Witness ==
    /\ RunDone
    /\ batch.unconverted = <<1, 2, 3>>
    /\ batch.failed = {1}
    /\ DOMAIN images = {1, 3}
    /\ ~ images[1].converted
    /\ images[3].converted

====
